---- MODULE Spec2Model ----
(***************************************************************************)
(* A model of ringbuf.c, the C ring buffer (FIFO) of c-ringbuf.            *)
(*                                                                         *)
(* A ring is a record [size, buf, head, tail].  Pointers into the storage  *)
(* are modelled as offsets from rb->buf: buf is a function 0..size-1 ->    *)
(* Byte, head and tail are offsets, and the one-past-the-end pointer       *)
(* ringbuf_end(rb) is the offset size.  NULL is the value NULL.            *)
(* Every public function is an operator that returns the ring(s) it        *)
(* leaves behind, its return value, the number of loop iterations it made  *)
(* and whether all of its assert()s held; one action per function applies  *)
(* it to a ring of the program.                                            *)
(***************************************************************************)
EXTENDS Integers, Sequences, FiniteSets, TLC

VARIABLES rb, ext, last, fifo, heap, prod, cons

vars == <<rb, ext, last, fifo, heap, prod, cons>>

----------------------------------------------------------------------------
(* Bounds of the model. *)

\* largest capacity a ring is created with
MaxCap == 2
\* largest count / len / offset argument of a call, and the length of the
\* external destination array
MaxCount == 3

\* largest capacity of the source ring of SpecSeg
MaxSegCap == 5

\* the byte values of the model: two distinguishable values
Byte == {0, 1}
\* longest history of written bytes the FIFO history follows
MaxHist == MaxCap + 2

\* the rings the program has created
Rings == DOMAIN rb
\* the null pointer, and the failure value 0 of the functions returning void *
NULL == -1

\* size_t: unsigned, arithmetic modulo 2^SIZE_WIDTH.  The width is that of
\* the narrowest size_t C allows; every size of the model is far below
\* 2^16, so a wider size_t computes the same values.
SIZE_WIDTH == 16
ToSizeT(x) == x % (2 ^ SIZE_WIDTH)

MIN(a, b) == IF a < b THEN a ELSE b

\* all sequences over S of length 0..n
SeqsUpTo(S, n) == UNION {[1 .. k -> S] : k \in 0 .. n}

----------------------------------------------------------------------------
(* Accessors and occupancy accounting. *)

ringbuf_buffer_size(r) == r.size

\* a slip: only head is taken back to the start of the storage
ringbuf_reset_headonly(r) == [r EXCEPT !.head = 0]

ringbuf_reset(r) == [r EXCEPT !.head = 0, !.tail = 0]

ringbuf_capacity(r) == ToSizeT(ringbuf_buffer_size(r) - 1)

ringbuf_end(r) == ringbuf_buffer_size(r)

\* a slip: the case head < tail is forgotten
ringbuf_bytes_free_nowrap(r) ==
    ToSizeT(ringbuf_capacity(r) - (r.head - r.tail))

ringbuf_bytes_free(r) ==
    IF r.head >= r.tail
    THEN ToSizeT(ringbuf_capacity(r) - (r.head - r.tail))
    ELSE ToSizeT(r.tail - r.head - 1)

\* a slip: the case head < tail is forgotten
bytes_free_loads_nowrap(r, head_cmp, tail_cmp, head_sub, tail_sub) ==
    ToSizeT(ringbuf_capacity(r) - (head_sub - tail_sub))

\* ringbuf_bytes_free as a thread running beside another computes it: the
\* comparison and the subtraction each load the cursors from memory, and
\* the other thread may move its cursor between the two loads
bytes_free_loads(r, head_cmp, tail_cmp, head_sub, tail_sub) ==
    IF head_cmp >= tail_cmp
    THEN ToSizeT(ringbuf_capacity(r) - (head_sub - tail_sub))
    ELSE ToSizeT(tail_sub - head_sub - 1)

ringbuf_bytes_used(r) == ToSizeT(ringbuf_capacity(r) - ringbuf_bytes_free(r))

\* a slip: full is tested the way empty would be without the spare slot
ringbuf_is_full_headtail(r) == r.head = r.tail

ringbuf_is_full(r) == ringbuf_bytes_free(r) = 0

ringbuf_is_empty(r) == ringbuf_bytes_free(r) = ringbuf_capacity(r)

ringbuf_tail(r) == r.tail

ringbuf_head(r) == r.head

\* a slip: the pointer after the last slot is not wrapped
ringbuf_nextp_nomod(r, p) ==
    [ok |-> (p >= 0) /\ (p < ringbuf_end(r)),
     p  |-> p + 1]

\* the pointer after p, and whether the assert on p held
ringbuf_nextp(r, p) ==
    [ok |-> (p >= 0) /\ (p < ringbuf_end(r)),
     p  |-> (p + 1) % ringbuf_buffer_size(r)]

\* ringbuf_new with both allocations succeeding: storage of capacity + 1
\* bytes whose contents mem are whatever the allocator returned
ringbuf_new(capacity, mem) ==
    ringbuf_reset([size |-> capacity + 1, buf |-> mem, head |-> 0, tail |-> 0])

\* the allocator hooks on a heap h, the number of blocks handed out and not
\* released: an allocation that succeeds (ok) hands out one more block, one
\* that fails returns NULL and hands out nothing
malloc_fun(h, ok) ==
    [p |-> IF ok THEN 0 ELSE NULL, heap |-> IF ok THEN h + 1 ELSE h]

free_fun(h) == h - 1

\* a slip: the metadata block is not released when the storage allocation
\* fails
ringbuf_new_alloc_leak(capacity, mem, h, ok1, ok2) ==
    LET m1 == malloc_fun(h, ok1)
        m2 == malloc_fun(m1.heap, ok2)
    IN  IF m1.p = NULL
        THEN [ret |-> NULL, rb |-> NULL, heap |-> m1.heap]
        ELSE IF m2.p = NULL
        THEN [ret |-> NULL, rb |-> NULL, heap |-> m2.heap]
        ELSE [ret |-> m1.p, rb |-> ringbuf_new(capacity, mem), heap |-> m2.heap]

\* ringbuf_new(capacity) on the heap h with an allocator whose first call
\* succeeds iff ok1 and whose second call succeeds iff ok2: the value
\* returned (NULL, or 0 for the address of the new ring), the new ring and
\* the heap afterwards
ringbuf_new_alloc(capacity, mem, h, ok1, ok2) ==
    LET m1 == malloc_fun(h, ok1)
        m2 == malloc_fun(m1.heap, ok2)
    IN  IF m1.p = NULL
        THEN [ret |-> NULL, rb |-> NULL, heap |-> m1.heap]
        ELSE IF m2.p = NULL
        THEN [ret |-> NULL, rb |-> NULL, heap |-> free_fun(m2.heap)]
        ELSE [ret |-> m1.p, rb |-> ringbuf_new(capacity, mem), heap |-> m2.heap]

\* the heap after ringbuf_free: the storage and the metadata are released
ringbuf_free(h) == free_fun(free_fun(h))

----------------------------------------------------------------------------
(* memchr, memset and memcpy on the storage.  An external array is a       *)
(* sequence, so the C pointer a + k is the index k + 1.                    *)

\* storage b after memset(b + at, c, n)
MemSet(b, at, c, n) ==
    [i \in DOMAIN b |-> IF i >= at /\ i < at + n THEN c ELSE b[i]]

\* storage b after memcpy(b + at, a + from, n), a an external array
MemCpyIn(b, at, a, from, n) ==
    [i \in DOMAIN b |-> IF i >= at /\ i < at + n THEN a[from + (i - at) + 1] ELSE b[i]]

\* external array a after memcpy(a + at, b + from, n), b a storage
MemCpyOut(a, at, b, from, n) ==
    [i \in DOMAIN a |-> IF i > at /\ i <= at + n THEN b[from + (i - at - 1)] ELSE a[i]]

\* storage d after memcpy(d + at, s + from, n), both storages
MemCpyRing(d, at, s, from, n) ==
    [i \in DOMAIN d |-> IF i >= at /\ i < at + n THEN s[from + (i - at)] ELSE d[i]]

\* memchr(b + start, c, n): the offset of the first match, NULL if none
MemChr(b, start, c, n) ==
    LET hits == {i \in 0 .. n - 1 : b[start + i] = c}
    IN  IF hits = {} THEN NULL
        ELSE CHOOSE i \in hits : \A j \in hits : i <= j

----------------------------------------------------------------------------
(* ringbuf_findchr *)

\* a slip: the run searched is not cut at the end of the unread bytes
RECURSIVE ringbuf_findchr_nomin(_, _, _)
ringbuf_findchr_nomin(r, c, offset) ==
    LET bufend     == ringbuf_end(r)
        bytes_used == ringbuf_bytes_used(r)
    IN  IF offset >= bytes_used
        THEN [ret |-> bytes_used, ok |-> TRUE]
        ELSE LET start == (r.tail + offset) % ringbuf_buffer_size(r)
                 n     == bufend - start
                 found == MemChr(r.buf, start, c, n)
             IN  IF ~(bufend > start)
                 THEN [ret |-> NULL, ok |-> FALSE]
                 ELSE IF found # NULL
                 THEN [ret |-> offset + found, ok |-> TRUE]
                 ELSE ringbuf_findchr_nomin(r, c, offset + n)

RECURSIVE ringbuf_findchr(_, _, _)
ringbuf_findchr(r, c, offset) ==
    LET bufend     == ringbuf_end(r)
        bytes_used == ringbuf_bytes_used(r)
    IN  IF offset >= bytes_used
        THEN [ret |-> bytes_used, ok |-> TRUE]
        ELSE LET start == (r.tail + offset) % ringbuf_buffer_size(r)
                 n     == MIN(bufend - start, bytes_used - offset)
                 found == MemChr(r.buf, start, c, n)
             IN  IF ~(bufend > start)
                 THEN [ret |-> NULL, ok |-> FALSE]
                 ELSE IF found # NULL
                 THEN [ret |-> offset + found, ok |-> TRUE]
                 ELSE ringbuf_findchr(r, c, offset + n)

----------------------------------------------------------------------------
(* ringbuf_memset *)

\* a slip: head is not taken back to the start of the storage at its end
RECURSIVE memset_loop_nowrap(_, _, _)
memset_loop_nowrap(st, c, count) ==
    IF st.n = count THEN st
    ELSE LET dst    == st.rb
             bufend == ringbuf_end(dst)
             n      == MIN(bufend - dst.head, count - st.n)
             head1  == dst.head + n
         IN  IF ~(bufend > dst.head)
             THEN [st EXCEPT !.ok = FALSE]
             ELSE memset_loop_nowrap(
                      [rb   |-> [dst EXCEPT !.buf = MemSet(dst.buf, dst.head, c, n),
                                            !.head = head1],
                       n    |-> st.n + n,
                       segs |-> st.segs + 1,
                       ok   |-> st.ok], c, count)

\* the while loop of ringbuf_memset; st = [rb, n, segs, ok], n = nwritten
RECURSIVE memset_loop(_, _, _)
memset_loop(st, c, count) ==
    IF st.n = count THEN st
    ELSE LET dst    == st.rb
             bufend == ringbuf_end(dst)
             n      == MIN(bufend - dst.head, count - st.n)
             head1  == dst.head + n
             head2  == IF head1 = bufend THEN 0 ELSE head1
         IN  IF ~(bufend > dst.head)
             THEN [st EXCEPT !.ok = FALSE]
             ELSE memset_loop([rb   |-> [dst EXCEPT !.buf = MemSet(dst.buf, dst.head, c, n),
                                                    !.head = head2],
                               n    |-> st.n + n,
                               segs |-> st.segs + 1,
                               ok   |-> st.ok], c, count)

\* a slip: tail is set to head, not to the position after it
evict_tail_is_head(dst, overflow) ==
    IF overflow
    THEN LET d2 == [dst EXCEPT !.tail = dst.head]
         IN  [rb |-> d2, ok |-> ringbuf_is_full(d2)]
    ELSE [rb |-> dst, ok |-> TRUE]

\* a slip: tail is advanced by one slot whatever the overflow was
evict_one_step(dst, overflow) ==
    IF overflow
    THEN LET np == ringbuf_nextp(dst, dst.tail)
             d2 == [dst EXCEPT !.tail = np.p]
         IN  [rb |-> d2, ok |-> np.ok /\ ringbuf_is_full(d2)]
    ELSE [rb |-> dst, ok |-> TRUE]

\* the overflow epilogue shared by memset, memcpy_into and copy
evict(dst, overflow) ==
    IF overflow
    THEN LET np == ringbuf_nextp(dst, dst.head)
             d2 == [dst EXCEPT !.tail = np.p]
         IN  [rb |-> d2, ok |-> np.ok /\ ringbuf_is_full(d2)]
    ELSE [rb |-> dst, ok |-> TRUE]

\* a slip: the count is cut at the capacity, not at the size of the storage
ringbuf_memset_capcount(dst, c, len) ==
    LET count    == MIN(len, ringbuf_capacity(dst))
        overflow == count > ringbuf_bytes_free(dst)
        lp       == memset_loop([rb |-> dst, n |-> 0, segs |-> 0, ok |-> TRUE], c, count)
        ev       == evict(lp.rb, overflow)
    IN  IF ~lp.ok
        THEN [rb |-> lp.rb, ret |-> lp.n, segs |-> lp.segs, ok |-> FALSE, overflow |-> overflow]
        ELSE [rb |-> ev.rb, ret |-> lp.n, segs |-> lp.segs, ok |-> ev.ok, overflow |-> overflow]

ringbuf_memset(dst, c, len) ==
    LET count    == MIN(len, ringbuf_buffer_size(dst))
        overflow == count > ringbuf_bytes_free(dst)
        lp       == memset_loop([rb |-> dst, n |-> 0, segs |-> 0, ok |-> TRUE], c, count)
        ev       == evict(lp.rb, overflow)
    IN  IF ~lp.ok
        THEN [rb |-> lp.rb, ret |-> lp.n, segs |-> lp.segs, ok |-> FALSE, overflow |-> overflow]
        ELSE [rb |-> ev.rb, ret |-> lp.n, segs |-> lp.segs, ok |-> ev.ok, overflow |-> overflow]

----------------------------------------------------------------------------
(* ringbuf_memcpy_into *)

\* a slip: every segment is copied from the start of the source array
RECURSIVE memcpy_into_loop_src0(_, _, _)
memcpy_into_loop_src0(st, u8src, count) ==
    IF st.n = count THEN st
    ELSE LET dst    == st.rb
             bufend == ringbuf_end(dst)
             n      == MIN(bufend - dst.head, count - st.n)
             head1  == dst.head + n
             head2  == IF head1 = bufend THEN 0 ELSE head1
         IN  IF ~(bufend > dst.head)
             THEN [st EXCEPT !.ok = FALSE]
             ELSE memcpy_into_loop_src0(
                      [rb   |-> [dst EXCEPT !.buf = MemCpyIn(dst.buf, dst.head, u8src, 0, n),
                                            !.head = head2],
                       n    |-> st.n + n,
                       segs |-> st.segs + 1,
                       ok   |-> st.ok], u8src, count)

\* a slip: the loop copies one byte per iteration
RECURSIVE memcpy_into_loop_bytewise(_, _, _)
memcpy_into_loop_bytewise(st, u8src, count) ==
    IF st.n = count THEN st
    ELSE LET dst    == st.rb
             bufend == ringbuf_end(dst)
             n      == 1
             head1  == dst.head + n
             head2  == IF head1 = bufend THEN 0 ELSE head1
         IN  IF ~(bufend > dst.head)
             THEN [st EXCEPT !.ok = FALSE]
             ELSE memcpy_into_loop_bytewise(
                      [rb   |-> [dst EXCEPT !.buf = MemCpyIn(dst.buf, dst.head, u8src, st.n, n),
                                            !.head = head2],
                       n    |-> st.n + n,
                       segs |-> st.segs + 1,
                       ok   |-> st.ok], u8src, count)

\* the while loop of ringbuf_memcpy_into; st = [rb, n, segs, ok], n = nread
RECURSIVE memcpy_into_loop(_, _, _)
memcpy_into_loop(st, u8src, count) ==
    IF st.n = count THEN st
    ELSE LET dst    == st.rb
             bufend == ringbuf_end(dst)
             n      == MIN(bufend - dst.head, count - st.n)
             head1  == dst.head + n
             head2  == IF head1 = bufend THEN 0 ELSE head1
         IN  IF ~(bufend > dst.head)
             THEN [st EXCEPT !.ok = FALSE]
             ELSE memcpy_into_loop(
                      [rb   |-> [dst EXCEPT !.buf = MemCpyIn(dst.buf, dst.head, u8src, st.n, n),
                                            !.head = head2],
                       n    |-> st.n + n,
                       segs |-> st.segs + 1,
                       ok   |-> st.ok], u8src, count)

\* a slip: the overflow epilogue is forgotten
ringbuf_memcpy_into_noevict(dst, src, count) ==
    LET overflow == count > ringbuf_bytes_free(dst)
        lp       == memcpy_into_loop([rb |-> dst, n |-> 0, segs |-> 0, ok |-> TRUE], src, count)
    IN  [rb |-> lp.rb, ret |-> IF lp.ok THEN lp.rb.head ELSE NULL, segs |-> lp.segs,
         ok |-> lp.ok, overflow |-> overflow]

ringbuf_memcpy_into(dst, src, count) ==
    LET overflow == count > ringbuf_bytes_free(dst)
        lp       == memcpy_into_loop([rb |-> dst, n |-> 0, segs |-> 0, ok |-> TRUE], src, count)
        ev       == evict(lp.rb, overflow)
    IN  IF ~lp.ok
        THEN [rb |-> lp.rb, ret |-> NULL, segs |-> lp.segs, ok |-> FALSE, overflow |-> overflow]
        ELSE [rb |-> ev.rb, ret |-> ev.rb.head, segs |-> lp.segs, ok |-> ev.ok,
              overflow |-> overflow]

----------------------------------------------------------------------------
(* ringbuf_memcpy_from *)

\* a slip: every segment is copied to the start of the destination array
RECURSIVE memcpy_from_loop_dst0(_, _)
memcpy_from_loop_dst0(st, count) ==
    IF st.n = count THEN st
    ELSE LET src    == st.rb
             bufend == ringbuf_end(src)
             n      == MIN(bufend - src.tail, count - st.n)
             tail1  == src.tail + n
             tail2  == IF tail1 = bufend THEN 0 ELSE tail1
         IN  IF ~(bufend > src.tail)
             THEN [st EXCEPT !.ok = FALSE]
             ELSE memcpy_from_loop_dst0(
                      [rb   |-> [src EXCEPT !.tail = tail2],
                       dst  |-> MemCpyOut(st.dst, 0, src.buf, src.tail, n),
                       n    |-> st.n + n,
                       segs |-> st.segs + 1,
                       ok   |-> st.ok], count)

\* the while loop of ringbuf_memcpy_from; st = [rb, dst, n, segs, ok],
\* n = nwritten, dst the external destination array
RECURSIVE memcpy_from_loop(_, _)
memcpy_from_loop(st, count) ==
    IF st.n = count THEN st
    ELSE LET src    == st.rb
             bufend == ringbuf_end(src)
             n      == MIN(bufend - src.tail, count - st.n)
             tail1  == src.tail + n
             tail2  == IF tail1 = bufend THEN 0 ELSE tail1
         IN  IF ~(bufend > src.tail)
             THEN [st EXCEPT !.ok = FALSE]
             ELSE memcpy_from_loop(
                      [rb   |-> [src EXCEPT !.tail = tail2],
                       dst  |-> MemCpyOut(st.dst, st.n, src.buf, src.tail, n),
                       n    |-> st.n + n,
                       segs |-> st.segs + 1,
                       ok   |-> st.ok], count)

\* a slip: the check of count against bytes_used is forgotten
ringbuf_memcpy_from_nocheck(dst, src, count) ==
    LET bytes_used == ringbuf_bytes_used(src)
        lp == memcpy_from_loop([rb |-> src, dst |-> dst, n |-> 0, segs |-> 0, ok |-> TRUE],
                               count)
    IN  [rb   |-> lp.rb,
         dst  |-> lp.dst,
         ret  |-> IF lp.ok THEN lp.rb.tail ELSE NULL,
         segs |-> lp.segs,
         ok   |-> lp.ok /\ ToSizeT(count + ringbuf_bytes_used(lp.rb)) = bytes_used]

\* a slip: a read that empties the ring takes both cursors back to the
\* start of the storage
ringbuf_memcpy_from_rewind(dst, src, count) ==
    LET bytes_used == ringbuf_bytes_used(src)
        lp == memcpy_from_loop([rb |-> src, dst |-> dst, n |-> 0, segs |-> 0, ok |-> TRUE],
                               count)
    IN  IF count > bytes_used
        THEN [rb |-> src, dst |-> dst, ret |-> NULL, segs |-> 0, ok |-> TRUE]
        ELSE [rb   |-> IF ringbuf_is_empty(lp.rb) THEN ringbuf_reset(lp.rb) ELSE lp.rb,
              dst  |-> lp.dst,
              ret  |-> IF lp.ok THEN lp.rb.tail ELSE NULL,
              segs |-> lp.segs,
              ok   |-> lp.ok /\ ToSizeT(count + ringbuf_bytes_used(lp.rb)) = bytes_used]

ringbuf_memcpy_from(dst, src, count) ==
    LET bytes_used == ringbuf_bytes_used(src)
        lp == memcpy_from_loop([rb |-> src, dst |-> dst, n |-> 0, segs |-> 0, ok |-> TRUE],
                               count)
    IN  IF count > bytes_used
        THEN [rb |-> src, dst |-> dst, ret |-> NULL, segs |-> 0, ok |-> TRUE]
        ELSE [rb   |-> lp.rb,
              dst  |-> lp.dst,
              ret  |-> IF lp.ok THEN lp.rb.tail ELSE NULL,
              segs |-> lp.segs,
              ok   |-> lp.ok /\ ToSizeT(count + ringbuf_bytes_used(lp.rb)) = bytes_used]

----------------------------------------------------------------------------
(* ringbuf_copy *)

\* a slip: the loop copies one byte per iteration
RECURSIVE copy_loop_bytewise(_, _)
copy_loop_bytewise(st, count) ==
    IF st.n = count THEN st
    ELSE LET src        == st.src
             dst        == st.dst
             src_bufend == ringbuf_end(src)
             dst_bufend == ringbuf_end(dst)
             n          == 1
             tail1      == src.tail + n
             head1      == dst.head + n
         IN  IF ~(src_bufend > src.tail) \/ ~(dst_bufend > dst.head)
             THEN [st EXCEPT !.ok = FALSE]
             ELSE copy_loop_bytewise(
                      [src  |-> [src EXCEPT !.tail = IF tail1 = src_bufend THEN 0 ELSE tail1],
                       dst  |-> [dst EXCEPT
                                   !.buf = MemCpyRing(dst.buf, dst.head, src.buf, src.tail, n),
                                   !.head = IF head1 = dst_bufend THEN 0 ELSE head1],
                       n    |-> st.n + n,
                       segs |-> st.segs + 1,
                       ok   |-> st.ok], count)

\* the while loop of ringbuf_copy; st = [dst, src, n, segs, ok], n = ncopied
RECURSIVE copy_loop(_, _)
copy_loop(st, count) ==
    IF st.n = count THEN st
    ELSE LET src        == st.src
             dst        == st.dst
             src_bufend == ringbuf_end(src)
             dst_bufend == ringbuf_end(dst)
             nsrc       == MIN(src_bufend - src.tail, count - st.n)
             n          == MIN(dst_bufend - dst.head, nsrc)
             tail1      == src.tail + n
             head1      == dst.head + n
         IN  IF ~(src_bufend > src.tail) \/ ~(dst_bufend > dst.head)
             THEN [st EXCEPT !.ok = FALSE]
             ELSE copy_loop(
                      [src  |-> [src EXCEPT !.tail = IF tail1 = src_bufend THEN 0 ELSE tail1],
                       dst  |-> [dst EXCEPT
                                   !.buf = MemCpyRing(dst.buf, dst.head, src.buf, src.tail, n),
                                   !.head = IF head1 = dst_bufend THEN 0 ELSE head1],
                       n    |-> st.n + n,
                       segs |-> st.segs + 1,
                       ok   |-> st.ok], count)

\* a slip: the check of count against the source's bytes_used is forgotten
ringbuf_copy_nocheck(dst, src, count) ==
    LET src_bytes_used == ringbuf_bytes_used(src)
        overflow == count > ringbuf_bytes_free(dst)
        lp  == copy_loop([dst |-> dst, src |-> src, n |-> 0, segs |-> 0, ok |-> TRUE], count)
        ok2 == lp.ok /\ ToSizeT(count + ringbuf_bytes_used(lp.src)) = src_bytes_used
        ev  == evict(lp.dst, overflow)
    IN  IF ~ok2
        THEN [dst |-> lp.dst, src |-> lp.src, ret |-> NULL, segs |-> lp.segs, ok |-> FALSE,
              overflow |-> overflow]
        ELSE [dst |-> ev.rb, src |-> lp.src, ret |-> ev.rb.head, segs |-> lp.segs,
              ok |-> ev.ok, overflow |-> overflow]

\* a slip: the overflow epilogue is forgotten
ringbuf_copy_noevict(dst, src, count) ==
    LET src_bytes_used == ringbuf_bytes_used(src)
        overflow == count > ringbuf_bytes_free(dst)
        lp  == copy_loop([dst |-> dst, src |-> src, n |-> 0, segs |-> 0, ok |-> TRUE], count)
        ok2 == lp.ok /\ ToSizeT(count + ringbuf_bytes_used(lp.src)) = src_bytes_used
    IN  IF count > src_bytes_used
        THEN [dst |-> dst, src |-> src, ret |-> NULL, segs |-> 0, ok |-> TRUE,
              overflow |-> FALSE]
        ELSE [dst |-> lp.dst, src |-> lp.src, ret |-> IF ok2 THEN lp.dst.head ELSE NULL,
              segs |-> lp.segs, ok |-> ok2, overflow |-> overflow]

ringbuf_copy(dst, src, count) ==
    LET src_bytes_used == ringbuf_bytes_used(src)
        overflow == count > ringbuf_bytes_free(dst)
        lp  == copy_loop([dst |-> dst, src |-> src, n |-> 0, segs |-> 0, ok |-> TRUE], count)
        ok2 == lp.ok /\ ToSizeT(count + ringbuf_bytes_used(lp.src)) = src_bytes_used
        ev  == evict(lp.dst, overflow)
    IN  IF count > src_bytes_used
        THEN [dst |-> dst, src |-> src, ret |-> NULL, segs |-> 0, ok |-> TRUE,
              overflow |-> FALSE]
        ELSE IF ~ok2
        THEN [dst |-> lp.dst, src |-> lp.src, ret |-> NULL, segs |-> lp.segs, ok |-> FALSE,
              overflow |-> overflow]
        ELSE [dst |-> ev.rb, src |-> lp.src, ret |-> ev.rb.head, segs |-> lp.segs,
              ok |-> ev.ok, overflow |-> overflow]

----------------------------------------------------------------------------
(* The logical view of a ring, used to state properties. *)

\* the unread bytes of r in reading order: the flattened contents
Contents(r) ==
    [i \in 1 .. ringbuf_bytes_used(r) |-> r.buf[(r.tail + i - 1) % r.size]]

\* the last n elements of the sequence s (all of s when n >= Len(s))
LastN(s, n) ==
    IF n >= Len(s) THEN s ELSE SubSeq(s, Len(s) - n + 1, Len(s))

\* s without its first n elements (empty when n >= Len(s))
DropN(s, n) == IF n >= Len(s) THEN <<>> ELSE SubSeq(s, n + 1, Len(s))

IsPrefix(p, s) == Len(p) <= Len(s) /\ SubSeq(s, 1, Len(p)) = p

\* the sequence of n copies of c
Repeat(c, n) == [i \in 1 .. n |-> c]

----------------------------------------------------------------------------
(* State.                                                                  *)
(*   rb    the rings the program has created, by name                      *)
(*   ext   the caller's destination array of the last ringbuf_memcpy_from  *)
(*         call, as that call left it (<<>> after any other call)          *)
(*   last  the last call: function, ring, arguments and results, and for   *)
(*         the writing calls the bytes_free of the ring before the call    *)
(*   fifo  the history of the current run of memcpy_into / memcpy_from     *)
(*         calls: the bytes written and the bytes delivered since the      *)
(*         ring was last empty, and how many writes and reads that were;   *)
(*         in the unsynchronized program also whether a call of one        *)
(*         thread has started while a call of the other was in progress    *)
(*   heap  the number of blocks the allocator has handed out and not got   *)
(*         back                                                            *)
(*   prod  the producer thread of the unsynchronized program: where it is  *)
(*         in its ringbuf_memcpy_into call, and that call's locals         *)
(*   cons  the consumer thread of the unsynchronized program: where it is  *)
(*         in its ringbuf_memcpy_from call, and that call's locals         *)

NoCall ==
    [op |-> "new", r |-> "A", n |-> 0, c |-> 0, data |-> <<>>, ret |-> 0,
     segs |-> 0, ok |-> TRUE, overflow |-> FALSE, free |-> 0]

\* the contents a caller's destination array has before a call
DstBefore == {[i \in 1 .. MaxCount |-> b] : b \in Byte}

NoHistory ==
    [written |-> <<>>, delivered |-> <<>>, writes |-> 0, reads |-> 0, overlap |-> FALSE]

\* a thread that is not inside a call
ProdIdle == [pc |-> "idle", src |-> <<>>, nread |-> 0, n |-> 0, tail |-> 0]

ConsIdle ==
    [pc |-> "idle", count |-> 0, nwritten |-> 0, n |-> 0, head |-> 0,
     bytes_used |-> 0, after |-> 0, dst |-> <<>>]

\* the threads take no step in a single-threaded program
threads == <<prod, cons>>

\* every state of a ring of capacity at most MaxCap with both cursors inside
\* its storage.  A program that creates one ring reaches every one of them
\* (memcpy_into and memcpy_from move the cursors to any position and leave
\* any bytes behind), and two rings share no state.
RingStates ==
    UNION {[size : {sz}, buf : [0 .. sz - 1 -> Byte], head : 0 .. sz - 1, tail : 0 .. sz - 1]
           : sz \in 1 .. MaxCap + 1}

TypeOK ==
    /\ \A r \in Rings : rb[r] \in RingStates
    /\ ext \in SeqsUpTo(Byte, MaxCount)
    /\ last.op \in {"new", "reset", "memset", "memcpy_into", "memcpy_from", "copy", "findchr",
                    "query", "free"}

\* a program with one ring "A" of any capacity up to MaxCap, just created,
\* its storage uninitialised
InitOne ==
    /\ \E capA \in 0 .. MaxCap : \E memA \in [0 .. capA -> Byte] :
          rb = [r \in {"A"} |-> ringbuf_new(capA, memA)]
    /\ ext = <<>>
    /\ last = NoCall
    /\ fifo = NoHistory
    /\ heap = 2
    /\ prod = ProdIdle
    /\ cons = ConsIdle

\* a program with two rings "A" and "B", each in any state a ring can be in
InitTwo ==
    /\ rb \in [{"A", "B"} -> RingStates]
    /\ ext = <<>>
    /\ last = NoCall
    /\ fifo = NoHistory
    /\ heap = 4
    /\ prod = ProdIdle
    /\ cons = ConsIdle

----------------------------------------------------------------------------
(* One action per public function.  A call is made only while no assert()  *)
(* has failed: a failed assert aborts the program.                         *)

\* ringbuf_reset(r); last.n keeps the number of unread bytes it drops
Reset(r) ==
    /\ last.ok
    /\ rb' = [rb EXCEPT ![r] = ringbuf_reset(rb[r])]
    /\ last' = [NoCall EXCEPT !.op = "reset", !.r = r, !.n = ringbuf_bytes_used(rb[r])]
    /\ ext' = <<>>

Memset(r, c, len) ==
    /\ last.ok
    /\ LET res == ringbuf_memset(rb[r], c, len)
       IN  /\ rb' = [rb EXCEPT ![r] = res.rb]
           /\ last' = [op |-> "memset", r |-> r, n |-> len, c |-> c, data |-> <<>>,
                       ret |-> res.ret, segs |-> res.segs, ok |-> res.ok,
                       overflow |-> res.overflow, free |-> ringbuf_bytes_free(rb[r])]
    /\ ext' = <<>>

\* ringbuf_memcpy_into(r, data, Len(data))
MemcpyInto(r, data) ==
    /\ last.ok
    /\ LET res == ringbuf_memcpy_into(rb[r], data, Len(data))
       IN  /\ rb' = [rb EXCEPT ![r] = res.rb]
           /\ last' = [op |-> "memcpy_into", r |-> r, n |-> Len(data), c |-> 0,
                       data |-> data, ret |-> res.ret, segs |-> res.segs, ok |-> res.ok,
                       overflow |-> res.overflow, free |-> ringbuf_bytes_free(rb[r])]
    /\ ext' = <<>>

\* ringbuf_memcpy_from(dst, r, count) with dst an array holding dst0;
\* last.data keeps dst0
MemcpyFrom(r, count, dst0) ==
    /\ last.ok
    /\ LET res == ringbuf_memcpy_from(dst0, rb[r], count)
       IN  /\ rb' = [rb EXCEPT ![r] = res.rb]
           /\ ext' = res.dst
           /\ last' = [op |-> "memcpy_from", r |-> r, n |-> count, c |-> 0,
                       data |-> dst0, ret |-> res.ret, segs |-> res.segs, ok |-> res.ok,
                       overflow |-> FALSE, free |-> 0]

\* ringbuf_copy(d, s, count) on two different rings
Copy(d, s, count) ==
    /\ last.ok
    /\ d # s
    /\ LET res == ringbuf_copy(rb[d], rb[s], count)
       IN  /\ rb' = [rb EXCEPT ![d] = res.dst, ![s] = res.src]
           /\ last' = [op |-> "copy", r |-> d, n |-> count, c |-> 0, data |-> <<>>,
                       ret |-> res.ret, segs |-> res.segs, ok |-> res.ok,
                       overflow |-> res.overflow, free |-> ringbuf_bytes_free(rb[d])]
    /\ ext' = <<>>

Findchr(r, c, offset) ==
    /\ last.ok
    /\ LET res == ringbuf_findchr(rb[r], c, offset)
       IN  last' = [NoCall EXCEPT !.op = "findchr", !.r = r, !.n = offset, !.c = c,
                                  !.ret = res.ret, !.ok = res.ok]
    /\ ext' = <<>>
    /\ UNCHANGED rb

\* the O(1) queries, all called on r: ringbuf_capacity, ringbuf_bytes_used,
\* ringbuf_bytes_free, ringbuf_is_full, ringbuf_is_empty, ringbuf_head and
\* ringbuf_tail take a const pointer and assign nothing; last.data keeps
\* what they returned
Query(r) ==
    /\ last.ok
    /\ last' = [NoCall EXCEPT
                  !.op = "query", !.r = r,
                  !.data = <<ringbuf_capacity(rb[r]), ringbuf_bytes_used(rb[r]),
                             ringbuf_bytes_free(rb[r]),
                             IF ringbuf_is_full(rb[r]) THEN 1 ELSE 0,
                             IF ringbuf_is_empty(rb[r]) THEN 1 ELSE 0,
                             ringbuf_head(rb[r]), ringbuf_tail(rb[r])>>]
    /\ ext' = <<>>
    /\ UNCHANGED rb

\* ringbuf_new(capacity) for the ring named r, with an allocator that fails
\* as fail1 and fail2 say; last.data keeps <<fail1, fail2>> as 0 / 1
New(r, capacity, mem, fail1, fail2) ==
    /\ last.ok
    /\ r \notin Rings
    /\ LET res == ringbuf_new_alloc(capacity, mem, heap, ~fail1, ~fail2)
       IN  /\ rb' = IF res.ret = NULL THEN rb
                    ELSE [x \in Rings \cup {r} |-> IF x = r THEN res.rb ELSE rb[x]]
           /\ heap' = res.heap
           /\ last' = [NoCall EXCEPT
                         !.op = "new", !.r = r, !.n = capacity, !.ret = res.ret,
                         !.data = <<IF fail1 THEN 1 ELSE 0, IF fail2 THEN 1 ELSE 0>>]
    /\ ext' = <<>>

\* ringbuf_free(&r)
Free(r) ==
    /\ last.ok
    /\ r \in Rings
    /\ rb' = [x \in Rings \ {r} |-> rb[x]]
    /\ heap' = ringbuf_free(heap)
    /\ last' = [NoCall EXCEPT !.op = "free", !.r = r]
    /\ ext' = <<>>

----------------------------------------------------------------------------
(* Spec: the program either creates one ring and calls the single-ring     *)
(* functions on it in any order with any arguments, or has two rings in    *)
(* any state and makes one ringbuf_copy call from "A" into "B".            *)

Init == InitOne \/ InitTwo

\* the program with one ring
OneRing == Rings = {"A"}

CallReset ==
    OneRing /\ Reset("A") /\ UNCHANGED <<fifo, heap, threads>>

CallMemset ==
    /\ OneRing
    /\ \E c \in Byte, len \in 0 .. MaxCount : Memset("A", c, len)
    /\ UNCHANGED <<fifo, heap, threads>>

CallMemcpyInto ==
    /\ OneRing
    /\ \E data \in SeqsUpTo(Byte, MaxCount) : MemcpyInto("A", data)
    /\ UNCHANGED <<fifo, heap, threads>>

CallMemcpyFrom ==
    /\ OneRing
    /\ \E count \in 0 .. MaxCount, dst0 \in DstBefore : MemcpyFrom("A", count, dst0)
    /\ UNCHANGED <<fifo, heap, threads>>

CallFindchr ==
    /\ OneRing
    /\ \E c \in Byte, offset \in 0 .. MaxCount : Findchr("A", c, offset)
    /\ UNCHANGED <<fifo, heap, threads>>

CallQuery ==
    OneRing /\ Query("A") /\ UNCHANGED <<fifo, heap, threads>>

\* the program with two rings: one ringbuf_copy call
CallCopy ==
    /\ Rings = {"A", "B"}
    /\ last.op = "new"
    /\ \E count \in 0 .. MaxCount : Copy("B", "A", count)
    /\ UNCHANGED <<fifo, heap, threads>>

Next ==
    \/ CallReset
    \/ CallMemset
    \/ CallMemcpyInto
    \/ CallMemcpyFrom
    \/ CallFindchr
    \/ CallQuery
    \/ CallCopy

Spec == Init /\ [][Next]_vars

----------------------------------------------------------------------------
(* SpecFifo: the program creates one ring and only calls                   *)
(* ringbuf_memcpy_into, never with more bytes than are free, and           *)
(* ringbuf_memcpy_from.  fifo follows the bytes written and delivered; a   *)
(* write into an empty ring starts the history afresh, and a write that    *)
(* would make the history longer than MaxHist is not made.                 *)

Bump(k) == IF k < 2 THEN k + 1 ELSE k

FifoInto(data) ==
    /\ Len(data) <= ringbuf_bytes_free(rb["A"])
    /\ ringbuf_is_empty(rb["A"]) \/ Len(fifo.written) + Len(data) <= MaxHist
    /\ MemcpyInto("A", data)
    /\ fifo' = IF ringbuf_is_empty(rb["A"])
               THEN [NoHistory EXCEPT !.written = data, !.writes = 1]
               ELSE [fifo EXCEPT !.written = @ \o data, !.writes = Bump(@)]
    /\ UNCHANGED <<heap, threads>>

FifoFrom(count, dst0) ==
    /\ MemcpyFrom("A", count, dst0)
    /\ fifo' = IF last'.ret = NULL THEN fifo
               ELSE [fifo EXCEPT !.delivered = @ \o SubSeq(ext', 1, count),
                                 !.reads = Bump(@)]
    /\ UNCHANGED <<heap, threads>>

NextFifo ==
    \/ \E data \in SeqsUpTo(Byte, MaxCount) : FifoInto(data)
    \/ \E count \in 0 .. MaxCount, dst0 \in DstBefore : FifoFrom(count, dst0)

SpecFifo == InitOne /\ [][NextFifo]_vars

----------------------------------------------------------------------------
(* SpecNew: the program starts with no ring and an empty heap, and creates *)
(* and frees up to two rings; every allocation may fail.                   *)

RingNames == {"A", "B"}

InitNone ==
    /\ rb = [x \in {} |-> NULL]
    /\ ext = <<>>
    /\ last = NoCall
    /\ fifo = NoHistory
    /\ heap = 0
    /\ prod = ProdIdle
    /\ cons = ConsIdle

CallNew ==
    /\ \E r \in RingNames, capacity \in 0 .. MaxCap, fail1, fail2 \in BOOLEAN :
          \E mem \in [0 .. capacity -> Byte] : New(r, capacity, mem, fail1, fail2)
    /\ UNCHANGED <<fifo, threads>>

CallFree ==
    /\ \E r \in RingNames : Free(r)
    /\ UNCHANGED <<fifo, threads>>

NextNew == CallNew \/ CallFree

SpecNew == InitNone /\ [][NextNew]_vars

----------------------------------------------------------------------------
(* SpecSeg: the program has a source ring "A" of a capacity up to          *)
(* MaxSegCap and a destination ring "B" of a capacity up to MaxCap, with   *)
(* their cursors anywhere, and makes one ringbuf_copy call from "A" into   *)
(* "B".  The storage of both rings is zero-filled: the loop of             *)
(* ringbuf_copy computes its segments from the cursors and the sizes only. *)

\* every state of a zero-filled ring of capacity at most maxcap
ZeroRings(maxcap) ==
    UNION {[size : {sz}, buf : {[i \in 0 .. sz - 1 |-> 0]}, head : 0 .. sz - 1,
            tail : 0 .. sz - 1] : sz \in 1 .. maxcap + 1}

InitSeg ==
    /\ \E a \in ZeroRings(MaxSegCap), b \in ZeroRings(MaxCap) :
          rb = [r \in {"A", "B"} |-> IF r = "A" THEN a ELSE b]
    /\ ext = <<>>
    /\ last = NoCall
    /\ fifo = NoHistory
    /\ heap = 4
    /\ prod = ProdIdle
    /\ cons = ConsIdle

CallCopySeg ==
    /\ last.op = "new"
    /\ \E count \in 0 .. MaxSegCap : Copy("B", "A", count)
    /\ UNCHANGED <<fifo, heap, threads>>

NextSeg == CallCopySeg

SpecSeg == InitSeg /\ [][NextSeg]_vars

----------------------------------------------------------------------------
(* SpecSpsc: the unsynchronized program.  It creates one ring "A"; a       *)
(* producer thread calls ringbuf_memcpy_into with no more bytes than the   *)
(* bytes_free it has just computed, a consumer thread calls                *)
(* ringbuf_memcpy_from, and nothing keeps one call from running while the  *)
(* other is in progress.  A step is one load of the other thread's         *)
(* cursor, one memcpy of a segment, one update of the thread's own cursor, *)
(* or the wrap of that cursor; steps of the two threads interleave in any  *)
(* order.  fifo follows all bytes written and delivered, at most MaxHist   *)
(* of each.  A failed assert() aborts the program.                         *)

\* producer: ringbuf_bytes_free loads tail for its comparison
ProdLoadTail ==
    /\ last.ok
    /\ prod.pc = "idle"
    /\ prod' = [prod EXCEPT !.pc = "free", !.tail = rb["A"].tail]
    /\ fifo' = [fifo EXCEPT !.overlap = @ \/ cons.pc # "idle"]
    /\ UNCHANGED <<rb, ext, last, heap, cons>>

\* producer: ringbuf_bytes_free loads tail for its subtraction and returns;
\* the thread calls ringbuf_memcpy_into with at least one byte and at most
\* as many as that, so that the call's overflow flag is 0
ProdCall ==
    /\ last.ok
    /\ prod.pc = "free"
    /\ LET r    == rb["A"]
           free == bytes_free_loads(r, r.head, prod.tail, r.head, r.tail)
       IN  \E data \in SeqsUpTo(Byte, MaxCount) :
              /\ Len(data) >= 1
              /\ Len(data) <= free
              /\ Len(fifo.written) + Len(data) <= MaxHist
              /\ prod' = [prod EXCEPT !.pc = "loop", !.src = data, !.nread = 0]
              /\ fifo' = [fifo EXCEPT !.written = @ \o data, !.writes = Bump(@)]
    /\ UNCHANGED <<rb, ext, last, heap, cons>>

\* producer: the thread has computed bytes_free and writes nothing
ProdSkip ==
    /\ last.ok
    /\ prod.pc = "free"
    /\ prod' = ProdIdle
    /\ UNCHANGED <<rb, ext, last, fifo, heap, cons>>

\* producer: the assert and the memcpy of one loop iteration
ProdMemcpy ==
    /\ last.ok
    /\ prod.pc = "loop"
    /\ LET dst    == rb["A"]
           bufend == ringbuf_end(dst)
           n      == MIN(bufend - dst.head, Len(prod.src) - prod.nread)
       IN  IF ~(bufend > dst.head)
           THEN /\ last' = [last EXCEPT !.ok = FALSE]
                /\ UNCHANGED <<rb, prod>>
           ELSE /\ rb' = [rb EXCEPT !["A"].buf = MemCpyIn(dst.buf, dst.head, prod.src,
                                                         prod.nread, n)]
                /\ prod' = [prod EXCEPT !.pc = "adv", !.n = n]
                /\ UNCHANGED last
    /\ UNCHANGED <<ext, fifo, heap, cons>>

\* producer: dst->head += n; nread += n
ProdAdvance ==
    /\ last.ok
    /\ prod.pc = "adv"
    /\ rb' = [rb EXCEPT !["A"].head = @ + prod.n]
    /\ prod' = [prod EXCEPT !.pc = "wrap", !.nread = @ + prod.n]
    /\ UNCHANGED <<ext, last, fifo, heap, cons>>

\* producer: the wrap of head and the loop test; the call returns when all
\* bytes are written (its overflow flag is 0)
ProdWrap ==
    /\ last.ok
    /\ prod.pc = "wrap"
    /\ rb' = [rb EXCEPT !["A"].head = IF @ = ringbuf_end(rb["A"]) THEN 0 ELSE @]
    /\ prod' = IF prod.nread = Len(prod.src) THEN ProdIdle
               ELSE [prod EXCEPT !.pc = "loop"]
    /\ UNCHANGED <<ext, last, fifo, heap, cons>>

\* consumer: the thread calls ringbuf_memcpy_from for count bytes, and
\* ringbuf_bytes_free loads head for its comparison
ConsLoadHead ==
    /\ last.ok
    /\ cons.pc = "idle"
    /\ \E count \in 1 .. MaxCount :
          /\ Len(fifo.delivered) + count <= MaxHist
          /\ cons' = [ConsIdle EXCEPT !.pc = "used", !.count = count,
                                      !.head = rb["A"].head, !.dst = Repeat(0, count)]
    /\ fifo' = [fifo EXCEPT !.overlap = @ \/ prod.pc # "idle"]
    /\ UNCHANGED <<rb, ext, last, heap, prod>>

\* consumer: ringbuf_bytes_free loads head for its subtraction, and
\* ringbuf_bytes_used returns
ConsBytesUsed ==
    /\ last.ok
    /\ cons.pc = "used"
    /\ LET r    == rb["A"]
           free == bytes_free_loads(r, cons.head, r.tail, r.head, r.tail)
       IN  cons' = [cons EXCEPT !.pc = "test",
                                !.bytes_used = ToSizeT(ringbuf_capacity(r) - free)]
    /\ UNCHANGED <<rb, ext, last, fifo, heap, prod>>

\* consumer: if (count > bytes_used) return 0
ConsTest ==
    /\ last.ok
    /\ cons.pc = "test"
    /\ cons' = IF cons.count > cons.bytes_used THEN ConsIdle
               ELSE [cons EXCEPT !.pc = "loop"]
    /\ UNCHANGED <<rb, ext, last, fifo, heap, prod>>

\* consumer: the assert and the memcpy of one loop iteration
ConsMemcpy ==
    /\ last.ok
    /\ cons.pc = "loop"
    /\ LET src    == rb["A"]
           bufend == ringbuf_end(src)
           n      == MIN(bufend - src.tail, cons.count - cons.nwritten)
       IN  IF ~(bufend > src.tail)
           THEN /\ last' = [last EXCEPT !.ok = FALSE]
                /\ UNCHANGED cons
           ELSE /\ cons' = [cons EXCEPT !.pc = "adv", !.n = n,
                                        !.dst = MemCpyOut(@, cons.nwritten, src.buf,
                                                          src.tail, n)]
                /\ UNCHANGED last
    /\ UNCHANGED <<rb, ext, fifo, heap, prod>>

\* consumer: src->tail += n; nwritten += n
ConsAdvance ==
    /\ last.ok
    /\ cons.pc = "adv"
    /\ rb' = [rb EXCEPT !["A"].tail = @ + cons.n]
    /\ cons' = [cons EXCEPT !.pc = "wrap", !.nwritten = @ + cons.n]
    /\ UNCHANGED <<ext, last, fifo, heap, prod>>

\* consumer: the wrap of tail and the loop test
ConsWrap ==
    /\ last.ok
    /\ cons.pc = "wrap"
    /\ rb' = [rb EXCEPT !["A"].tail = IF @ = ringbuf_end(rb["A"]) THEN 0 ELSE @]
    /\ cons' = [cons EXCEPT !.pc = IF cons.nwritten = cons.count THEN "check" ELSE "loop"]
    /\ UNCHANGED <<ext, last, fifo, heap, prod>>

\* consumer: after the loop ringbuf_bytes_free loads head for its comparison
ConsLoadHeadAfter ==
    /\ last.ok
    /\ cons.pc = "check"
    /\ cons' = [cons EXCEPT !.pc = "after", !.head = rb["A"].head]
    /\ UNCHANGED <<rb, ext, last, fifo, heap, prod>>

\* consumer: ringbuf_bytes_free loads head for its subtraction, and
\* ringbuf_bytes_used returns the value the assert compares
ConsBytesUsedAfter ==
    /\ last.ok
    /\ cons.pc = "after"
    /\ LET r    == rb["A"]
           free == bytes_free_loads(r, cons.head, r.tail, r.head, r.tail)
       IN  cons' = [cons EXCEPT !.pc = "assert",
                                !.after = ToSizeT(ringbuf_capacity(r) - free)]
    /\ UNCHANGED <<rb, ext, last, fifo, heap, prod>>

\* consumer: assert(count + ringbuf_bytes_used(src) == bytes_used), and the
\* call returns with count bytes delivered
ConsAssert ==
    /\ last.ok
    /\ cons.pc = "assert"
    /\ last' = [last EXCEPT !.ok = (ToSizeT(cons.count + cons.after) = cons.bytes_used)]
    /\ fifo' = [fifo EXCEPT !.delivered = @ \o cons.dst, !.reads = Bump(@)]
    /\ cons' = ConsIdle
    /\ UNCHANGED <<rb, ext, heap, prod>>

NextSpsc ==
    \/ ProdLoadTail
    \/ ProdCall
    \/ ProdSkip
    \/ ProdMemcpy
    \/ ProdAdvance
    \/ ProdWrap
    \/ ConsLoadHead
    \/ ConsBytesUsed
    \/ ConsTest
    \/ ConsMemcpy
    \/ ConsAdvance
    \/ ConsWrap
    \/ ConsLoadHeadAfter
    \/ ConsBytesUsedAfter
    \/ ConsAssert

SpecSpsc == InitOne /\ [][NextSpsc]_vars

----------------------------------------------------------------------------
(* Properties. *)

\* the number of bytes by which a write of k bytes exceeds free bytes
Evicted(k, free) == IF k > free THEN k - free ELSE 0

\* what a linear search of the sequence s for c from the 0-based index
\* offset returns: the first index found, Len(s) if there is none
LinearSearch(s, c, offset) ==
    LET hits == {i \in offset .. Len(s) - 1 : s[i + 1] = c}
    IN  IF hits = {} THEN Len(s)
        ELSE CHOOSE i \in hits : \A j \in hits : i <= j

\* the slots of r outside its unread region
StaleSlots(r) ==
    (0 .. r.size - 1) \ {(r.tail + i) % r.size : i \in 0 .. ringbuf_bytes_used(r) - 1}

\* the source ring of the ringbuf_copy call l
SrcOf(l) == IF l.r = "A" THEN "B" ELSE "A"

\* C1 (FIFO): in every run of ringbuf_memcpy_into calls that never exceed
\* bytes_free and ringbuf_memcpy_from calls, started on an empty ring at any
\* cursor position, bytes_used equals the bytes written minus the bytes
\* delivered, and the bytes delivered are a prefix of the bytes written.
FifoProperty ==
    /\ ringbuf_bytes_used(rb["A"]) = Len(fifo.written) - Len(fifo.delivered)
    /\ IsPrefix(fifo.delivered, fifo.written)

\* two writes and two reads, the last read in two segments across the end of
\* the storage, delivering different byte values
FifoWitness ==
    /\ last.op = "memcpy_from" /\ last.ret # NULL /\ last.segs = 2
    /\ fifo.writes = 2 /\ fifo.reads = 2
    /\ Len(fifo.delivered) >= 3
    /\ \E i, j \in DOMAIN fifo.delivered : fifo.delivered[i] # fifo.delivered[j]

\* C2 (accounting): after every call on a ring of any capacity,
\* bytes_used + bytes_free = capacity, with both in 0 .. capacity.
AccountingInv ==
    \A r \in Rings :
        LET used == ringbuf_bytes_used(rb[r])
            free == ringbuf_bytes_free(rb[r])
            cap  == ringbuf_capacity(rb[r])
        IN  /\ used + free = cap
            /\ used \in 0 .. cap
            /\ free \in 0 .. cap

\* an overflowing write has left the ring full with head behind tail
AccountingWitness ==
    /\ last.op = "memcpy_into" /\ last.overflow
    /\ rb["A"].head < rb["A"].tail
    /\ ringbuf_bytes_free(rb["A"]) = 0
    /\ ringbuf_bytes_used(rb["A"]) = 2

\* C3 (cursor range): between calls head and tail are offsets in
\* 0 .. size - 1 of the storage; no call leaves a cursor one past the end.
CursorRangeInv ==
    \A r \in Rings :
        /\ rb[r].head \in 0 .. rb[r].size - 1
        /\ rb[r].tail \in 0 .. rb[r].size - 1

\* a ringbuf_copy moved bytes, and took the source's tail and the
\* destination's head past the last slot back to the first
CursorRangeWitness ==
    /\ last.op = "copy" /\ last.ret # NULL /\ last.n > 0
    /\ rb["B"].head = 0 /\ rb["A"].tail = 0
    /\ rb["A"].size = 3 /\ rb["B"].size = 2

\* C4 (overflow eviction) as stated: a ringbuf_memcpy_into of K <= size
\* bytes leaves as contents the old contents without their first
\* max(0, K - bytes_free) bytes, followed by the bytes written.
OverflowEvictionAsStated ==
    [][(last'.op = "memcpy_into" /\ last'.n <= rb[last'.r].size) =>
         LET r    == last'.r
             free == ringbuf_bytes_free(rb[r])
         IN  Contents(rb'[r]) =
                 DropN(Contents(rb[r]), Evicted(last'.n, free)) \o last'.data]_vars

\* C4 (overflow eviction) as amended: a ringbuf_memcpy_into of K <= size
\* bytes leaves as contents the last capacity bytes of the old contents
\* followed by the bytes written; for K <= capacity these are the old
\* contents without their first max(0, K - bytes_free) bytes, followed by
\* all the bytes written.
OverflowEviction ==
    [][(last'.op = "memcpy_into" /\ last'.n <= rb[last'.r].size) =>
         LET r    == last'.r
             C    == Contents(rb[r])
             W    == last'.data
             K    == last'.n
             free == ringbuf_bytes_free(rb[r])
             cap  == ringbuf_capacity(rb[r])
         IN  /\ Contents(rb'[r]) = LastN(C \o W, cap)
             /\ K <= cap => Contents(rb'[r]) = DropN(C, Evicted(K, free)) \o W]_vars

\* an overflowing write of fewer bytes than the capacity: an old byte that
\* differs from the bytes written survives in front of them
OverflowEvictionWitness ==
    /\ last.op = "memcpy_into" /\ last.overflow
    /\ last.n > 0 /\ last.n < ringbuf_capacity(rb["A"])
    /\ LET C == Contents(rb["A"])
       IN  /\ Len(C) = ringbuf_capacity(rb["A"])
           /\ LastN(C, last.n) = last.data
           /\ C[1] # last.data[1]

\* C5 (full after overflow): after ringbuf_memset, ringbuf_memcpy_into or
\* ringbuf_copy has written K >= bytes_free bytes, K = bytes_free included,
\* the destination is full and bytes_used = capacity.
FullAfterOverflow ==
    [][LET r == last'.r
           K == IF last'.op = "memset" THEN last'.ret ELSE last'.n
       IN  (/\ last'.op \in {"memset", "memcpy_into", "copy"}
            /\ last'.ret # NULL
            /\ K >= ringbuf_bytes_free(rb[r]))
           => /\ ringbuf_is_full(rb'[r])
              /\ ringbuf_bytes_used(rb'[r]) = ringbuf_capacity(rb'[r])]_vars

\* a write of exactly bytes_free > 0 bytes: no overflow, and the ring is full
FullAfterOverflowWitness ==
    /\ last.op = "memcpy_into" /\ ~last.overflow /\ last.n > 0
    /\ ringbuf_is_full(rb["A"])
    /\ ringbuf_bytes_used(rb["A"]) = ringbuf_capacity(rb["A"])

\* C6 (read underflow): ringbuf_memcpy_from with count > bytes_used returns
\* the failure value and leaves the ring and the destination array as they
\* were.
ReadUnderflow ==
    [][(last'.op = "memcpy_from" /\ last'.n > ringbuf_bytes_used(rb[last'.r])) =>
         /\ last'.ret = NULL
         /\ rb' = rb
         /\ ext' = last'.data]_vars

\* a read of one byte from an empty ring has failed
ReadUnderflowWitness ==
    /\ last.op = "memcpy_from" /\ last.n = 1 /\ last.ret = NULL
    /\ ringbuf_is_empty(rb["A"])
    /\ ext = last.data

\* C7 (copy underflow): ringbuf_copy with count > bytes_used(src) returns
\* the failure value and leaves both rings as they were.
CopyUnderflow ==
    [][(last'.op = "copy" /\ last'.n > ringbuf_bytes_used(rb[SrcOf(last')])) =>
         /\ last'.ret = NULL
         /\ rb' = rb]_vars

\* a copy of more bytes than a non-empty source holds and than the
\* destination has free has failed
CopyUnderflowWitness ==
    /\ last.op = "copy" /\ last.ret = NULL
    /\ ringbuf_bytes_used(rb["A"]) > 0
    /\ last.n > ringbuf_bytes_used(rb["A"])
    /\ last.n > ringbuf_bytes_free(rb["B"])

\* C8 (ring-to-ring transfer): ringbuf_copy with count <= bytes_used(src)
\* removes the first count bytes of the source's contents, leaves the
\* source's head where it was, and leaves as the destination's contents the
\* last min(capacity(dst), bytes_used(dst) + count) bytes of its old
\* contents followed by those count bytes.
CopyTransfer ==
    [][(last'.op = "copy" /\ last'.n <= ringbuf_bytes_used(rb[SrcOf(last')])) =>
         LET d     == last'.r
             s     == SrcOf(last')
             Cs    == Contents(rb[s])
             Cd    == Contents(rb[d])
             moved == SubSeq(Cs, 1, last'.n)
         IN  /\ last'.ret # NULL
             /\ Contents(rb'[s]) = DropN(Cs, last'.n)
             /\ rb'[s].head = rb[s].head
             /\ Contents(rb'[d]) =
                    LastN(Cd \o moved, MIN(ringbuf_capacity(rb[d]), Len(Cd) + last'.n))]_vars

\* a copy of more bytes than the destination's capacity, in several
\* segments: the destination is full and holds the last byte moved, the
\* source keeps nothing
CopyTransferWitness ==
    /\ last.op = "copy" /\ last.ret # NULL
    /\ ringbuf_capacity(rb["B"]) = 1
    /\ last.n = 2 /\ last.segs >= 2
    /\ ringbuf_is_full(rb["B"])
    /\ ringbuf_is_empty(rb["A"])

\* C9 (round trip): a ringbuf_memcpy_into of N <= capacity bytes into an
\* empty ring at any cursor position, followed by a ringbuf_memcpy_from of
\* N bytes: the read succeeds, delivers the bytes written and leaves the
\* ring empty.
RoundTrip ==
    [][(/\ last.op = "memcpy_into" /\ fifo.writes = 1 /\ fifo.reads = 0
        /\ last.n <= ringbuf_capacity(rb["A"])
        /\ last'.op = "memcpy_from" /\ last'.n = last.n) =>
         /\ last'.ret # NULL
         /\ SubSeq(ext', 1, last.n) = last.data
         /\ ringbuf_is_empty(rb'["A"])]_vars

\* one write into the empty ring and one read of as many bytes, of both
\* byte values, stored across the end of the storage
RoundTripWitness ==
    /\ last.op = "memcpy_from" /\ last.ret # NULL /\ last.segs = 2
    /\ fifo.writes = 1 /\ fifo.reads = 1
    /\ last.n = Len(fifo.written) /\ last.n >= 2
    /\ fifo.delivered = fifo.written
    /\ fifo.written[1] # fifo.written[2]
    /\ ringbuf_is_empty(rb["A"])

\* C10 (search): ringbuf_findchr(rb, c, offset) returns what a linear search
\* of the flattened contents from offset returns: the smallest index
\* i >= offset whose byte is c, or bytes_used if there is none or
\* offset >= bytes_used.
FindchrCorrect ==
    last.op = "findchr" =>
        last.ret = LinearSearch(Contents(rb[last.r]), last.c, last.n)

\* a search that started before the end of the storage and found its byte
\* after it, while a slot outside the unread region holds the byte too
FindchrWitness ==
    /\ last.op = "findchr"
    /\ last.ret < ringbuf_bytes_used(rb["A"])
    /\ rb["A"].tail + last.n < rb["A"].size
    /\ rb["A"].tail + last.ret >= rb["A"].size
    /\ \E i \in StaleSlots(rb["A"]) : rb["A"].buf[i] = last.c

\* C11 (fill): ringbuf_memset(dst, c, len) returns min(len, size), moves
\* head forward by that many slots modulo size, and leaves as contents the
\* newest bytes of the old contents, in order, followed by
\* min(returned value, capacity) bytes c.
FillProperty ==
    [][last'.op = "memset" =>
         LET r   == last'.r
             d   == rb[r]
             K   == last'.ret
             cap == ringbuf_capacity(d)
             C   == Contents(d)
             C2  == Contents(rb'[r])
             m   == MIN(K, cap)
         IN  /\ K = MIN(last'.n, ringbuf_buffer_size(d))
             /\ rb'[r].head = (d.head + K) % d.size
             /\ LastN(C2, m) = Repeat(last'.c, m)
             /\ C2 = LastN(C \o Repeat(last'.c, K), MIN(cap, Len(C) + K))]_vars

\* a fill of one byte into a full ring of capacity 2: the newest old byte
\* differs from the fill byte and survives in front of it
FillWitness ==
    /\ last.op = "memset" /\ last.ret = 1 /\ last.overflow
    /\ ringbuf_capacity(rb["A"]) = 2
    /\ Contents(rb["A"]) = <<1 - last.c, last.c>>

\* C12 (empty / full): in every state of a ring of any capacity, 0
\* included, ringbuf_is_empty holds iff head = tail, and ringbuf_is_full
\* holds iff bytes_free = 0 iff head moved one slot forward (modulo size)
\* is tail.
EmptyFullInv ==
    \A r \in Rings :
        /\ ringbuf_is_empty(rb[r]) <=> (rb[r].head = rb[r].tail)
        /\ ringbuf_is_full(rb[r]) <=> (ringbuf_bytes_free(rb[r]) = 0)
        /\ (ringbuf_bytes_free(rb[r]) = 0) <=> ((rb[r].head + 1) % rb[r].size = rb[r].tail)

\* a ring of capacity 0 after a write: it is empty and full at once
EmptyFullWitness ==
    /\ last.op = "memcpy_into" /\ last.n = 1
    /\ rb["A"].size = 1
    /\ ringbuf_is_empty(rb["A"])
    /\ ringbuf_is_full(rb["A"])

\* C13 (reset): ringbuf_reset takes head and tail to the start of the
\* storage, leaves every storage byte and the size as they were, and the
\* ring then is empty with bytes_used = 0 and bytes_free = capacity.
ResetProperty ==
    [][last'.op = "reset" =>
         LET r == last'.r
         IN  /\ rb'[r].head = 0
             /\ rb'[r].tail = 0
             /\ rb'[r].buf = rb[r].buf
             /\ rb'[r].size = rb[r].size
             /\ ringbuf_is_empty(rb'[r])
             /\ ringbuf_bytes_used(rb'[r]) = 0
             /\ ringbuf_bytes_free(rb'[r]) = ringbuf_capacity(rb'[r])]_vars

\* a reset of a full ring of capacity 2 whose storage keeps both byte values
ResetWitness ==
    /\ last.op = "reset" /\ last.n = 2
    /\ ringbuf_is_empty(rb["A"])
    /\ \E i, j \in DOMAIN rb["A"].buf : rb["A"].buf[i] # rb["A"].buf[j]

\* C14 (creation failure): with an allocator that may fail on any call,
\* ringbuf_new returns NULL iff its first or its second allocation fails;
\* when it returns NULL the heap holds as many blocks as before the call and
\* no ring was created; when it succeeds the new ring is empty and its size
\* is capacity + 1.
NewLeaksNothing ==
    [][last'.op = "new" =>
         LET r     == last'.r
             fail1 == last'.data[1] = 1
             fail2 == last'.data[2] = 1
         IN  /\ (last'.ret = NULL) <=> (fail1 \/ fail2)
             /\ last'.ret = NULL => (heap' = heap /\ rb' = rb)
             /\ last'.ret # NULL =>
                    /\ DOMAIN rb' = Rings \cup {r}
                    /\ ringbuf_is_empty(rb'[r])
                    /\ ringbuf_bytes_used(rb'[r]) = 0
                    /\ rb'[r].size = last'.n + 1]_vars

\* while ring "A" exists, the creation of "B" has failed at its second
\* allocation: the heap holds the two blocks of "A" and nothing else
NewLeaksNothingWitness ==
    /\ last.op = "new" /\ last.r = "B" /\ last.ret = NULL
    /\ last.data = <<0, 1>>
    /\ Rings = {"A"}
    /\ heap = 2

\* the smallest integer that is at least a / b
CeilDiv(a, b) == (a + b - 1) \div b

\* C15 (segments of a copy) as stated: a successful ringbuf_copy ends after
\* at most four loop iterations, for every pair of capacities, all cursor
\* positions and every count <= bytes_used(src).
SegmentBoundCopyAsStated ==
    (last.op = "copy" /\ last.ret # NULL) => last.segs <= 4

\* C15 (segments of a copy) as amended: a successful ringbuf_copy of count
\* bytes ends after at most min(count, 2 + ceil(count / size(dst))) loop
\* iterations: at most three when count <= size(dst), at most four when
\* count <= 2 * size(dst).
SegmentBoundCopy ==
    (last.op = "copy" /\ last.ret # NULL) =>
        LET sd == rb["B"].size
        IN  /\ last.ok
            /\ last.segs <= last.n
            /\ last.segs <= 2 + CeilDiv(last.n, sd)
            /\ last.n <= sd => last.segs <= 3
            /\ last.n <= 2 * sd => last.segs <= 4

\* a copy of 4 bytes into a ring of capacity 1 in four segments: the
\* destination wraps twice and the source once in between
SegmentBoundCopyWitness ==
    /\ last.op = "copy" /\ last.ret # NULL
    /\ rb["B"].size = 2
    /\ last.n = 4 /\ last.segs = 4

\* C16 (segments of the external transfers): a ringbuf_memcpy_into of
\* count <= size bytes and a successful ringbuf_memcpy_from each end after
\* at most two loop iterations, one memcpy each.
SegmentBoundExternal ==
    /\ (last.op = "memcpy_into" /\ last.n <= rb[last.r].size) =>
           (last.ok /\ last.ret # NULL /\ last.segs <= 2)
    /\ (last.op = "memcpy_from" /\ last.ret # NULL) =>
           (last.ok /\ last.segs <= 2)

\* a write of size bytes that started inside the storage: one segment to
\* its end and one from its start
SegmentBoundExternalWitness ==
    /\ last.op = "memcpy_into" /\ last.ret # NULL
    /\ rb["A"].size = 3 /\ last.n = 3
    /\ last.segs = 2

\* C17 (eviction): when ringbuf_memset, ringbuf_memcpy_into of
\* count <= size bytes or ringbuf_copy writes K > bytes_free bytes, the new
\* tail is the old tail moved forward by K - bytes_free slots modulo size;
\* when K <= bytes_free, tail stays where it was.
EvictionScales ==
    [][(/\ last'.op \in {"memset", "memcpy_into", "copy"}
        /\ last'.ret # NULL
        /\ last'.op = "memcpy_into" => last'.n <= rb[last'.r].size) =>
         LET r    == last'.r
             K    == IF last'.op = "memset" THEN last'.ret ELSE last'.n
             free == ringbuf_bytes_free(rb[r])
         IN  rb'[r].tail = IF K > free
                           THEN (rb[r].tail + (K - free)) % rb[r].size
                           ELSE rb[r].tail]_vars

\* a write of 2 bytes into a full ring of capacity 2: 2 bytes more than
\* were free, and tail has moved by two slots
EvictionScalesWitness ==
    /\ last.op = "memcpy_into" /\ last.ret # NULL /\ last.overflow
    /\ last.n = 2 /\ last.free = 0
    /\ rb["A"].size = 3

ReadOnly ==
    [][/\ last'.op \in {"query", "findchr"} => rb' = rb
       /\ (last'.op = "memcpy_from" /\ last'.ret # NULL) =>
              /\ rb'[last'.r].head = rb[last'.r].head
              /\ rb'[last'.r].buf = rb[last'.r].buf
              /\ rb'[last'.r].size = rb[last'.r].size
       /\ (last'.op = "memcpy_into" /\ ~last'.overflow) =>
              /\ rb'[last'.r].tail = rb[last'.r].tail
              /\ rb'[last'.r].size = rb[last'.r].size]_vars

\* a read of both bytes of a ring of capacity 2 across the end of its
\* storage has emptied it away from the start of the storage
ReadOnlyWitness ==
    /\ last.op = "memcpy_from" /\ last.ret # NULL
    /\ last.n = 2 /\ last.segs = 2
    /\ rb["A"].head = 1 /\ rb["A"].tail = 1

\* the three guarantees of C20: the bytes delivered are a prefix of the
\* bytes written, the values of bytes_used the consumer has computed are in
\* 0 .. capacity, and no assert() has failed
SpscGuarantees ==
    /\ IsPrefix(fifo.delivered, fifo.written)
    /\ cons.pc = "test" => cons.bytes_used \in 0 .. ringbuf_capacity(rb["A"])
    /\ cons.pc = "assert" => cons.after \in 0 .. ringbuf_capacity(rb["A"])
    /\ last.ok

\* C20 (unsynchronized producer and consumer) as stated: with the steps of
\* a non-overflowing ringbuf_memcpy_into and of a ringbuf_memcpy_from
\* interleaved in any order, the bytes delivered are a prefix of the bytes
\* written, every bytes_used the consumer computes is in 0 .. capacity, and
\* the assert of ringbuf_memcpy_from holds.
SpscAsStated == SpscGuarantees

\* C20 as amended: the three guarantees hold as long as no call of one
\* thread has started while a call of the other was in progress.
SpscSerialized == ~fifo.overlap => SpscGuarantees

\* calls that did not overlap: three bytes written in two calls into a ring
\* of capacity 2, head wrapping on the way, and all three delivered
SpscSerializedWitness ==
    /\ ~fifo.overlap
    /\ prod.pc = "idle" /\ cons.pc = "idle"
    /\ fifo.writes = 2 /\ fifo.reads = 2
    /\ Len(fifo.written) = 3
    /\ fifo.delivered = fifo.written
    /\ rb["A"].size = 3
    /\ last.ok

====
